---- MODULE Spec2Model ----
(***************************************************************************)
(* A model of the give_pdf tool of tools/convert.py: input resolution,     *)
(* the primary/repair/retry/fallback conversion chain, publishing into the *)
(* public directory and the assembly of the result, with the temporary     *)
(* input file's life cycle.                                                *)
(*                                                                         *)
(* Representation.  A Python str is a sequence of tokens, each token a     *)
(* TLA+ string standing for its characters; concatenation is \o and the    *)
(* empty sequence is the empty str (None and "" are both falsy in every    *)
(* test the code makes, and share it).  The two base64 fields are          *)
(* sequences of one-character tokens.  A filesystem path is a record       *)
(* [dir, name]: dir the directory's components, name the final component   *)
(* split into a stem and, when it has one, an extension token (".docx").   *)
(* File contents are sequences of bytes 0..255.                            *)
(***************************************************************************)
EXTENDS Integers, Sequences, FiniteSets, TLC

\* ------------------------------------------------------------------------
\* base64 (the stdlib codec the code calls)
\* ------------------------------------------------------------------------

\* The 64 characters of the standard alphabet, in value order.
B64Alphabet ==
    << "A","B","C","D","E","F","G","H","I","J","K","L","M","N","O","P",
       "Q","R","S","T","U","V","W","X","Y","Z","a","b","c","d","e","f",
       "g","h","i","j","k","l","m","n","o","p","q","r","s","t","u","v",
       "w","x","y","z","0","1","2","3","4","5","6","7","8","9","+","/" >>

B64Pad == "="

IsB64Char(c) == \E i \in 1..Len(B64Alphabet) : B64Alphabet[i] = c

\* The 6-bit value of an alphabet character.
B64Value(c) == (CHOOSE i \in 1..Len(B64Alphabet) : B64Alphabet[i] = c) - 1

DecodeError(msg) == [ok |-> FALSE, bytes |-> << >>, err |-> msg]

\* The decoder's loop over s from position i, as binascii.a2b_base64 runs it:
\* quad is the position in the current group of four, left the bits carried
\* over, pads the run of pad characters seen at quad >= 2, started whether a
\* pad character was seen, out the bytes produced so far.
RECURSIVE A2B(_, _, _, _, _, _, _, _)
A2B(s, strict, i, quad, left, pads, started, out) ==
    IF i > Len(s)
    THEN IF quad = 0 THEN [ok |-> TRUE, bytes |-> out, err |-> ""]
         ELSE IF quad = 1 THEN DecodeError("Invalid base64-encoded string")
         ELSE DecodeError("Incorrect padding")
    ELSE LET c == s[i] IN
         IF c = B64Pad
         THEN IF quad >= 2 /\ quad + pads + 1 >= 4
              THEN IF strict /\ i + 1 <= Len(s)
                   THEN DecodeError("Excess data after padding")
                   ELSE [ok |-> TRUE, bytes |-> out, err |-> ""]
              ELSE A2B(s, strict, i + 1, quad, left,
                       IF quad >= 2 THEN pads + 1 ELSE pads, TRUE, out)
         ELSE IF ~IsB64Char(c)
         THEN IF strict THEN DecodeError("Only base64 data is allowed")
              ELSE A2B(s, strict, i + 1, quad, left, pads, started, out)
         ELSE IF strict /\ started
         THEN DecodeError("Discontinuous padding not allowed")
         ELSE LET v == B64Value(c) IN
              CASE quad = 0 -> A2B(s, strict, i + 1, 1, v, 0, started, out)
                [] quad = 1 -> A2B(s, strict, i + 1, 2, v % 16, 0, started,
                                   Append(out, left * 4 + (v \div 16)))
                [] quad = 2 -> A2B(s, strict, i + 1, 3, v % 4, 0, started,
                                   Append(out, left * 16 + (v \div 4)))
                [] quad = 3 -> A2B(s, strict, i + 1, 0, 0, 0, started,
                                   Append(out, left * 64 + v))

\* base64.b64decode(s, validate=strict)
B64Decode(s, strict) ==
    IF strict /\ Len(s) > 0 /\ s[1] = B64Pad
    THEN DecodeError("Leading padding not allowed")
    ELSE A2B(s, strict, 1, 0, 0, 0, FALSE, << >>)

\* base64.b64encode(bytes), three bytes to four characters, padded.
RECURSIVE B64Encode(_)
B64Encode(b) ==
    IF Len(b) = 0 THEN << >>
    ELSE IF Len(b) = 1
    THEN << B64Alphabet[(b[1] \div 4) + 1], B64Alphabet[(b[1] % 4) * 16 + 1],
            B64Pad, B64Pad >>
    ELSE IF Len(b) = 2
    THEN << B64Alphabet[(b[1] \div 4) + 1],
            B64Alphabet[(b[1] % 4) * 16 + (b[2] \div 16) + 1],
            B64Alphabet[(b[2] % 16) * 4 + 1], B64Pad >>
    ELSE << B64Alphabet[(b[1] \div 4) + 1],
            B64Alphabet[(b[1] % 4) * 16 + (b[2] \div 16) + 1],
            B64Alphabet[(b[2] % 16) * 4 + (b[3] \div 64) + 1],
            B64Alphabet[(b[3] % 64) + 1] >>
         \o B64Encode(SubSeq(b, 4, Len(b)))

\* _looks_like_base64
looks_like_base64(s) == B64Decode(s, TRUE).ok

\* ------------------------------------------------------------------------
\* strings and paths
\* ------------------------------------------------------------------------

\* None, and the empty str: falsy.
None == << >>

Truthy(s) == Len(s) > 0

DOCX_EXT == ".docx"

PDF_EXT == ".pdf"

\* The tokens that are a file name's extension (a dot and what follows it).
ExtTokens == {DOCX_EXT, PDF_EXT}

NoPath == [dir |-> << >>, name |-> << >>]

IsPath(p) == p # NoPath

\* The process's working directory.
Cwd == << "/", "srv" >>

\* os.path.abspath on a directory: a relative one is joined to the cwd.
AbsDir(d) == IF Len(d) > 0 /\ d[1] = "/" THEN d ELSE Cwd \o d

\* os.path.abspath
abspath(p) == [dir |-> AbsDir(p.dir), name |-> p.name]

\* os.path.splitext(name)[0]
splitext(name) ==
    IF Len(name) >= 2 /\ name[Len(name)] \in ExtTokens
    THEN SubSeq(name, 1, Len(name) - 1)
    ELSE name

\* str.rstrip("/")
RECURSIVE rstrip_slash(_)
rstrip_slash(s) ==
    IF Len(s) > 0 /\ s[Len(s)] = "/"
    THEN rstrip_slash(SubSeq(s, 1, Len(s) - 1))
    ELSE s

\* str.format(id=file_id) on the download template.
RECURSIVE format_id(_, _)
format_id(template, file_id) ==
    IF Len(template) = 0 THEN << >>
    ELSE (IF Head(template) = "{id}" THEN file_id ELSE << Head(template) >>)
         \o format_id(Tail(template), file_id)

\* _is_url: the scheme urlparse finds is http or https.
is_url(src) == src.scheme \in {"http", "https"}

\* A docx_source str as the tokens it is made of (for messages and requests).
SourceStr(src) ==
    (IF src.scheme = "" THEN << >> ELSE << src.scheme, "://" >>)
    \o src.path.dir \o src.path.name

\* ------------------------------------------------------------------------
\* the requests, configurations and environments explored
\* ------------------------------------------------------------------------

\* The invocations: 1 runs in every specification, 2 only where two run.
Procs == {1, 2}

NoSource == [scheme |-> "", path |-> NoPath]

UrlSource ==
    [scheme |-> "https",
     path |-> [dir |-> << "example.com", "/" >>, name |-> << "a", DOCX_EXT >>]]

LocalSource ==
    [scheme |-> "",
     path |-> [dir |-> << "/", "data" >>, name |-> << "report", DOCX_EXT >>]]

MissingSource ==
    [scheme |-> "",
     path |-> [dir |-> << "/", "data" >>, name |-> << "missing", DOCX_EXT >>]]

SourceSamples == {NoSource, UrlSource, LocalSource, MissingSource}

\* "QUJD" decodes; "QUJ" is wrongly padded; "QUJD-" decodes only when the
\* characters outside the alphabet are discarded.
FileB64Samples ==
    { None, << "Q","U","J","D" >>, << "Q","U","J" >>, << "Q","U","J","D","-" >> }

\* "ZmlsZTEyMw==" is valid base64 (of "file123"); "file-123" is not.
PuchSamples ==
    { None,
      << "Z","m","l","s","Z","T","E","y","M","w","=","=" >>,
      << "f","i","l","e","-","1","2","3" >> }

FilenameSamples == { None, << "out", DOCX_EXT >> }

\* An explicit output path outside the public directory, and one inside it.
OutputPathSamples ==
    { NoPath,
      [dir |-> << "/", "data", "out" >>, name |-> << "result", PDF_EXT >>],
      [dir |-> << "files" >>, name |-> << "pub", PDF_EXT >>] }

NoRequest ==
    [docx_source |-> NoSource, output_path |-> NoPath, file_base64 |-> None,
     puch_file_data |-> None, filename |-> None]

Requests ==
    [docx_source : SourceSamples, output_path : OutputPathSamples,
     file_base64 : FileB64Samples, puch_file_data : PuchSamples,
     filename : FilenameSamples]

BaseUrlSamples == { None, << "https://host" >>, << "https://host", "/" >> }

Environs ==
    [FILES_DIR : {None}, VERCEL : {None},
     BASE_URL : BaseUrlSamples,
     INCLUDE_BASE64 : {None, << "True" >>},
     PUCH_DOWNLOAD_URL_TEMPLATE :
         {None, << "https://puch.example/api/files/", "{id}" >>}]

\* How many of the names mkstemp can draw are explored.
NumTmpNames == 2

\* The names mkstemp can draw (it returns one that does not exist yet).
TmpNames == << "tmpk3x9", "tmp_q7w", "tmp0a1b", "tmpzz42" >>

TmpStems == { TmpNames[i] : i \in 1..NumTmpNames }

TmpDir == << "/", "tmp" >>

TmpPath(stem) == [dir |-> TmpDir, name |-> << stem, DOCX_EXT >>]

\* What the remote servers answer, and what the local document holds.
UrlBody == << 80, 75, 1 >>

IdBody == << 80, 75, 2 >>

LocalBody == << 80, 75, 3 >>

\* The converters' output for an input document: "%PDF" and a body that
\* depends on the input.
Pdf(content) == << 37, 80, 68, 70 >> \o content

\* ------------------------------------------------------------------------
\* state
\* ------------------------------------------------------------------------

VARIABLES
    environ,    \* os.environ
    files,      \* the filesystem's files: absolute path -> bytes
    dirs,       \* the filesystem's directories (absolute)
    req,        \* per invocation: the arguments of give_pdf
    pc,         \* per invocation: where it is in give_pdf
    loc,        \* per invocation: the local variables of give_pdf
    exc,        \* per invocation: str(e) of the exception being raised
    result,     \* per invocation: the dict returned
    log         \* per invocation: the I/O it has performed, in order

vars == << environ, files, dirs, req, pc, loc, exc, result, log >>

NoLocals ==
    [files_dir |-> None, base_url |-> None, include_b64 |-> FALSE,
     attachment_b64 |-> None, input_path |-> NoPath, cleanup_tmp |-> FALSE,
     bound |-> FALSE, output_pdf |-> NoPath, public_pdf_path |-> NoPath,
     file_url |-> None,
     caught |-> "",          \* the class pypandoc's first failure was caught as
     converted |-> << >>]    \* the bytes this invocation's converter wrote

NoResult ==
    [keys |-> {}, success |-> FALSE, url |-> None, pdf_base64 |-> None,
     error |-> None]

Event(op, path, url) == [op |-> op, path |-> path, url |-> url]

InitFiles == LocalSource.path :> LocalBody

InitDirs == { TmpDir, << "/", "data" >> }

PublicDir == AbsDir(<< "files" >>)

InitWith(requests, active) ==
    /\ environ \in Environs
    /\ files = InitFiles
    /\ dirs \in { InitDirs, InitDirs \cup {PublicDir} }
    /\ req \in { [p \in Procs |-> IF p \in active THEN f[p] ELSE NoRequest] :
                   f \in [active -> requests] }
    /\ pc = [p \in Procs |-> IF p \in active THEN "start" ELSE "off"]
    /\ loc = [p \in Procs |-> NoLocals]
    /\ exc = [p \in Procs |-> None]
    /\ result = [p \in Procs |-> NoResult]
    /\ log = [p \in Procs |-> << >>]

Init == InitWith(Requests, {1})

\* ------------------------------------------------------------------------
\* the pure helpers of convert.py
\* ------------------------------------------------------------------------

\* _get_config: the public directory.
FilesDir(env) ==
    IF Truthy(env.FILES_DIR) THEN env.FILES_DIR
    ELSE IF env.VERCEL = << "1" >> THEN << "/", "tmp", "files" >>
    ELSE << "files" >>

\* str.lower on the values the flag takes.
lower(s) == IF s = << "TRUE" >> \/ s = << "True" >> THEN << "true" >> ELSE s

\* _get_config: INCLUDE_BASE64, "false" when unset.
IncludeB64(env) ==
    lower(IF env.INCLUDE_BASE64 = None THEN << "false" >>
          ELSE env.INCLUDE_BASE64) = << "true" >>

\* AttachmentB64 with the puch_file_data alternative forgotten.
AttachmentB64_file_only(r) == r.file_base64

\* give_pdf, the choice of the attachment payload.
AttachmentB64(r) ==
    IF Truthy(r.file_base64) THEN r.file_base64
    ELSE IF Truthy(r.puch_file_data) /\ looks_like_base64(r.puch_file_data)
         THEN r.puch_file_data
         ELSE None

\* TreatAsId without the test that puch_file_data is present.
TreatAsId_unguarded(r, attachment_b64) == ~Truthy(attachment_b64)

\* TreatAsId with the attachment-ID branch left out.
TreatAsId_never(r, attachment_b64) == FALSE

\* give_pdf: puch_file_data is taken as an attachment ID.
TreatAsId(r, attachment_b64) ==
    Truthy(r.puch_file_data) /\ ~Truthy(attachment_b64)

\* InputKind with docx_source tried before the payload.
InputKind_source_first(attachment_b64, src) ==
    IF src # NoSource THEN (IF is_url(src) THEN "url" ELSE "path")
    ELSE IF Truthy(attachment_b64) THEN "payload"
    ELSE "none"

\* _resolve_input_path: which source the input is resolved from.
InputKind(attachment_b64, src) ==
    IF Truthy(attachment_b64) THEN "payload"
    ELSE IF src # NoSource THEN (IF is_url(src) THEN "url" ELSE "path")
    ELSE "none"

\* _resolve_output_pdf_path
resolve_output_pdf_path(files_dir, filename, input_path, output_path) ==
    IF IsPath(output_path) THEN abspath(output_path)
    ELSE LET fallback_name == IF Truthy(input_path.name) THEN input_path.name
                              ELSE << "output", DOCX_EXT >>
             base_name_no_ext == IF Truthy(filename) THEN splitext(filename)
                                 ELSE splitext(fallback_name)
         IN  abspath([dir |-> files_dir,
                      name |-> base_name_no_ext \o << PDF_EXT >>])

\* _publish_and_url: the name the file is published under.
PublishName(output_pdf) ==
    IF Truthy(output_pdf.name) THEN output_pdf.name ELSE << "output", PDF_EXT >>

\* _publish_and_url: the public path.
PublicPdfPath(files_dir, output_pdf) ==
    abspath([dir |-> files_dir, name |-> PublishName(output_pdf)])

\* FileUrl with the base URL's trailing slashes kept.
FileUrl_keep_slash(base_url, output_pdf) ==
    IF Truthy(base_url)
    THEN base_url \o << "/files/" >> \o PublishName(output_pdf)
    ELSE None

\* FileUrl without the test that a base URL is configured.
FileUrl_without_base(base_url, output_pdf) ==
    rstrip_slash(base_url) \o << "/files/" >> \o PublishName(output_pdf)

\* _publish_and_url: the URL, None without a base URL.
FileUrl(base_url, output_pdf) ==
    IF Truthy(base_url)
    THEN rstrip_slash(base_url) \o << "/files/" >> \o PublishName(output_pdf)
    ELSE None

\* _success_result with the pdf_base64 key always set.
success_result_always_b64(file_url, has_b64, pdf_b64) ==
    [keys |-> {"success", "url", "pdf_base64"},
     success |-> TRUE, url |-> file_url,
     pdf_base64 |-> IF has_b64 THEN pdf_b64 ELSE None, error |-> None]

\* _success_result
success_result(file_url, has_b64, pdf_b64) ==
    [keys |-> {"success", "url"} \cup (IF has_b64 THEN {"pdf_base64"} ELSE {}),
     success |-> TRUE, url |-> file_url,
     pdf_base64 |-> IF has_b64 THEN pdf_b64 ELSE None, error |-> None]

\* {"success": False, "error": msg}
failure_result(msg) ==
    [keys |-> {"success", "error"}, success |-> FALSE, url |-> None,
     pdf_base64 |-> None, error |-> msg]

\* _safe_remove: the files afterwards.
safe_remove(fs, path) ==
    IF IsPath(path) /\ path \in DOMAIN fs
    THEN [q \in DOMAIN fs \ {path} |-> fs[q]]
    ELSE fs

\* The messages of the failures.
MsgNoTemplate ==
    << "Attachment provided as ID but PUCH_DOWNLOAD_URL_TEMPLATE is not set." >>

MsgNotFound(src) == << "File not found: " >> \o SourceStr(src)

MsgNoInput == << "Provide a docx_source (URL/path) or file_base64 (attachment)" >>

MsgNoDelivery == << "Set BASE_URL or set INCLUDE_BASE64=true" >>

MsgNoDocx2pdf == << "docx2pdf not installed; install and retry" >>

\* ------------------------------------------------------------------------
\* the steps of give_pdf
\* ------------------------------------------------------------------------

Logged(p, events) == log' = [log EXCEPT ![p] = @ \o events]

Goto(p, label) == pc' = [pc EXCEPT ![p] = label] /\ UNCHANGED << exc, result >>

\* An exception raised inside the try block: control goes to the handler.
Raise(p, msg) ==
    /\ pc' = [pc EXCEPT ![p] = "except"]
    /\ exc' = [exc EXCEPT ![p] = msg]
    /\ UNCHANGED result

\* A return statement of give_pdf.
Return(p, r) ==
    /\ pc' = [pc EXCEPT ![p] = "done"]
    /\ result' = [result EXCEPT ![p] = r]
    /\ UNCHANGED exc

\* What a _safe_remove call adds to the log: os.remove, when it is reached.
RemoveEvents(fs, fs2, path) ==
    IF path \in DOMAIN fs /\ path \notin DOMAIN fs2
    THEN << Event("remove", path, None) >>
    ELSE << >>

\* The cleanup without the cleanup_tmp test.
CleanupFiles_unconditional(l, fs) == safe_remove(fs, l.input_path)

\* `if cleanup_tmp: _safe_remove(input_path)`: the files afterwards.
CleanupFiles(l, fs) == IF l.cleanup_tmp THEN safe_remove(fs, l.input_path) ELSE fs

\* The except clause's cleanup: only when cleanup_tmp is a bound local.
HandlerCleanupFiles(l, fs) ==
    IF l.bound /\ l.cleanup_tmp THEN safe_remove(fs, l.input_path) ELSE fs

\* _get_config, called first in the try block: the public directory is
\* ensured to exist (which fails only when it has to be created), then the
\* base URL and the inline flag are read.
GetConfig(p) ==
    /\ pc[p] = "start"
    /\ LET files_dir == FilesDir(environ)
           d == AbsDir(files_dir)
       IN  /\ Logged(p, << Event("makedirs", [dir |-> d, name |-> None], None) >>)
           /\ \/ /\ dirs' = dirs \cup {d}
                 /\ loc' = [loc EXCEPT ![p].files_dir = files_dir,
                                       ![p].base_url = environ.BASE_URL,
                                       ![p].include_b64 = IncludeB64(environ)]
                 /\ Goto(p, "decide")
              \/ /\ d \notin dirs
                 /\ Raise(p, << "makedirs: permission denied" >>)
                 /\ UNCHANGED << dirs, loc >>
    /\ UNCHANGED << environ, files, req >>

\* The choice of the source: the attachment payload, then whether
\* puch_file_data is an attachment ID; input_path and cleanup_tmp are bound.
Decide(p) ==
    /\ pc[p] = "decide"
    /\ LET a == AttachmentB64(req[p])
       IN  /\ loc' = [loc EXCEPT ![p].attachment_b64 = a,
                                 ![p].input_path = NoPath,
                                 ![p].cleanup_tmp = FALSE,
                                 ![p].bound = TRUE]
           /\ Goto(p, IF TreatAsId(req[p], a) THEN "by_id" ELSE "resolve")
    /\ UNCHANGED << environ, files, dirs, req, log >>

\* tempfile.mkstemp followed by the write of the content: the file stem is
\* created empty, then either written (ok) or left as created (the write
\* raised).
TempWritten(fs, stem, content, ok) ==
    (TmpPath(stem) :> (IF ok THEN content ELSE << >>)) @@ fs

FreshStems == { s \in TmpStems : TmpPath(s) \notin DOMAIN files }

\* _download_docx_by_id inside its own try/except: every failure returns
\* {"success": False, "error": str(e)} at once.
DownloadById(p) ==
    /\ pc[p] = "by_id"
    /\ LET template == environ.PUCH_DOWNLOAD_URL_TEMPLATE
           url == format_id(template, req[p].puch_file_data)
           get == Event("http_get", NoPath, url)
       IN  \/ /\ ~Truthy(template)
              /\ Return(p, failure_result(MsgNoTemplate))
              /\ UNCHANGED << files, loc, log >>
           \/ /\ Truthy(template)
              /\ Return(p, failure_result(<< "HTTPError" >>))
              /\ Logged(p, << get >>)
              /\ UNCHANGED << files, loc >>
           \/ /\ Truthy(template)
              /\ \E stem \in FreshStems, ok \in BOOLEAN :
                   /\ files' = TempWritten(files, stem, IdBody, ok)
                   /\ Logged(p, << get, Event("mkstemp", TmpPath(stem), None) >>)
                   /\ IF ok
                      THEN /\ loc' = [loc EXCEPT ![p].input_path = TmpPath(stem),
                                                 ![p].cleanup_tmp = TRUE]
                           /\ Goto(p, "convert")
                      ELSE /\ Return(p, failure_result(<< "No space left on device" >>))
                           /\ UNCHANGED loc
    /\ UNCHANGED << environ, dirs, req >>

\* _resolve_input_path and the checks after it: the payload first, then
\* docx_source as a URL, then as a local path; without an input the
\* invocation returns a failure.
ResolveInput(p) ==
    /\ pc[p] = "resolve"
    /\ LET a == loc[p].attachment_b64
           src == req[p].docx_source
           kind == InputKind(a, src)
       IN  \/ /\ kind = "payload"
              /\ \E stem \in FreshStems, wrote \in BOOLEAN :
                   LET d == B64Decode(a, FALSE)
                       ok == d.ok /\ wrote
                   IN  /\ files' = TempWritten(files, stem, d.bytes, ok)
                       /\ Logged(p, << Event("mkstemp", TmpPath(stem), None) >>)
                       /\ IF ok
                          THEN /\ loc' = [loc EXCEPT ![p].input_path = TmpPath(stem),
                                                     ![p].cleanup_tmp = TRUE]
                               /\ Goto(p, "convert")
                          ELSE /\ Raise(p, IF d.ok THEN << "No space left on device" >>
                                           ELSE << d.err >>)
                               /\ UNCHANGED loc
           \/ /\ kind = "url"
              /\ LET get == Event("http_get", NoPath, SourceStr(src))
                 IN  \/ /\ Raise(p, << "HTTPError" >>)
                        /\ Logged(p, << get >>)
                        /\ UNCHANGED << files, loc >>
                     \/ \E stem \in FreshStems, ok \in BOOLEAN :
                          /\ files' = TempWritten(files, stem, UrlBody, ok)
                          /\ Logged(p, << get, Event("mkstemp", TmpPath(stem), None) >>)
                          /\ IF ok
                             THEN /\ loc' = [loc EXCEPT ![p].input_path = TmpPath(stem),
                                                        ![p].cleanup_tmp = TRUE]
                                  /\ Goto(p, "convert")
                             ELSE /\ Raise(p, << "No space left on device" >>)
                                  /\ UNCHANGED loc
           \/ /\ kind = "path"
              /\ LET abs_path == abspath(src.path)
                 IN  /\ Logged(p, << Event("exists", abs_path, None) >>)
                     /\ IF abs_path \in DOMAIN files
                        THEN /\ loc' = [loc EXCEPT ![p].input_path = abs_path,
                                                   ![p].cleanup_tmp = FALSE]
                             /\ Goto(p, "convert")
                        ELSE /\ loc' = [loc EXCEPT ![p].input_path = NoPath,
                                                   ![p].cleanup_tmp = FALSE]
                             /\ Return(p, failure_result(MsgNotFound(src)))
                     /\ UNCHANGED files
           \/ /\ kind = "none"
              /\ Return(p, failure_result(MsgNoInput))
              /\ UNCHANGED << files, loc, log >>
    /\ UNCHANGED << environ, dirs, req >>

\* AfterFirstFailure with every failure taken for a missing toolchain.
AfterFirstFailure_always_repair(caught) == "repair"

\* _convert_docx_to_pdf: the clause that catches the first invocation's
\* failure: `except OSError` (how pypandoc reports that no pandoc was
\* found) repairs and retries, `except Exception` falls back.
AfterFirstFailure(caught) == IF caught = "OSError" THEN "repair" ELSE "fallback"

\* The output path, then _convert_docx_to_pdf up to the first invocation of
\* the primary pipeline: the output directory is ensured, pypandoc runs and
\* writes the output, raises OSError (no pandoc), or raises something else.
Convert(p) ==
    /\ pc[p] = "convert"
    /\ LET l == loc[p]
           out == resolve_output_pdf_path(l.files_dir, req[p].filename,
                                          l.input_path, req[p].output_path)
           mk == Event("makedirs", [dir |-> out.dir, name |-> None], None)
           run == Event("convert_file", out, None)
       IN  \/ /\ out.dir \notin dirs
              /\ loc' = [loc EXCEPT ![p].output_pdf = out]
              /\ Raise(p, << "makedirs: permission denied" >>)
              /\ Logged(p, << mk >>)
              /\ UNCHANGED << files, dirs >>
           \/ /\ dirs' = dirs \cup {out.dir}
              /\ Logged(p, << mk, run >>)
              /\ \/ /\ l.input_path \in DOMAIN files
                    /\ files' = (out :> Pdf(files[l.input_path])) @@ files
                    /\ loc' = [loc EXCEPT ![p].output_pdf = out,
                                          ![p].converted = Pdf(files[l.input_path])]
                    /\ Goto(p, "publish")
                 \/ \E caught \in {"OSError", "Exception"} :
                      /\ loc' = [loc EXCEPT ![p].output_pdf = out,
                                            ![p].caught = caught]
                      /\ Goto(p, AfterFirstFailure(caught))
                      /\ UNCHANGED files
    /\ UNCHANGED << environ, req >>

\* The except OSError clause: pypandoc.download_pandoc(); when it raises,
\* the exception leaves _convert_docx_to_pdf.
Repair(p) ==
    /\ pc[p] = "repair"
    /\ Logged(p, << Event("download_pandoc", NoPath, None) >>)
    /\ \/ Goto(p, "retry")
       \/ Raise(p, << "pandoc download failed" >>)
    /\ UNCHANGED << environ, files, dirs, req, loc >>

\* The second invocation of the primary pipeline; any exception goes to
\* the fallback.
Retry(p) ==
    /\ pc[p] = "retry"
    /\ Logged(p, << Event("convert_file", loc[p].output_pdf, None) >>)
    /\ \/ /\ loc[p].input_path \in DOMAIN files
          /\ files' = (loc[p].output_pdf :> Pdf(files[loc[p].input_path])) @@ files
          /\ loc' = [loc EXCEPT ![p].converted = Pdf(files[loc[p].input_path])]
          /\ Goto(p, "publish")
       \/ /\ Goto(p, "fallback")
          /\ UNCHANGED << files, loc >>
    /\ UNCHANGED << environ, dirs, req >>

\* _convert_with_docx2pdf: the import may fail, the conversion may fail;
\* both leave _convert_docx_to_pdf as exceptions.
Fallback(p) ==
    /\ pc[p] = "fallback"
    /\ LET out == loc[p].output_pdf
           call == Event("docx2pdf", out, None)
           mk == Event("makedirs", [dir |-> out.dir, name |-> None], None)
       IN  \/ /\ Raise(p, MsgNoDocx2pdf)
              /\ Logged(p, << call >>)
              /\ UNCHANGED << files, loc >>
           \/ /\ Raise(p, << "docx2pdf failed" >>)
              /\ Logged(p, << call, mk >>)
              /\ UNCHANGED << files, loc >>
           \/ /\ loc[p].input_path \in DOMAIN files
              /\ files' = (out :> Pdf(files[loc[p].input_path])) @@ files
              /\ loc' = [loc EXCEPT ![p].converted = Pdf(files[loc[p].input_path])]
              /\ Logged(p, << call, mk >>)
              /\ Goto(p, "publish")
    /\ UNCHANGED << environ, dirs, req >>

\* The copy done as a move: the output no longer exists at its own path.
copy2_as_move(fs, src, dst) ==
    [q \in (DOMAIN fs \cup {dst}) \ {src} |-> IF q = dst THEN fs[src] ELSE fs[q]]

\* shutil.copy2(src, dst): the files afterwards.
copy2(fs, src, dst) == (dst :> fs[src]) @@ fs

\* _publish_and_url: the output is copied under its base name into the
\* public directory unless it already is that file, and the URL is built.
Publish(p) ==
    /\ pc[p] = "publish"
    /\ LET l == loc[p]
           pub == PublicPdfPath(l.files_dir, l.output_pdf)
           copy == Event("copy2", pub, None)
           published == [loc EXCEPT ![p].public_pdf_path = pub,
                                    ![p].file_url = FileUrl(l.base_url, l.output_pdf)]
       IN  \/ /\ abspath(l.output_pdf) = pub
              /\ loc' = published
              /\ Goto(p, "assemble")
              /\ UNCHANGED << files, log >>
           \/ /\ abspath(l.output_pdf) # pub
              /\ l.output_pdf \in DOMAIN files
              /\ files' = copy2(files, l.output_pdf, pub)
              /\ loc' = published
              /\ Logged(p, << copy >>)
              /\ Goto(p, "assemble")
           \/ /\ abspath(l.output_pdf) # pub
              /\ Raise(p, << "copy2 failed" >>)
              /\ Logged(p, << copy >>)
              /\ UNCHANGED << files, loc >>
    /\ UNCHANGED << environ, dirs, req >>

\* The end of the try block: without a URL and without inline inclusion the
\* invocation fails; otherwise the published file is read and encoded when
\* inline inclusion is on, and the result is built.  Both returns are
\* preceded by the cleanup of a temporary input.
Assemble(p) ==
    /\ pc[p] = "assemble"
    /\ LET l == loc[p]
           cleaned == CleanupFiles(l, files)
           removal == RemoveEvents(files, cleaned, l.input_path)
           read == Event("read", l.public_pdf_path, None)
       IN  \/ /\ ~Truthy(l.file_url) /\ ~l.include_b64
              /\ files' = cleaned
              /\ Logged(p, removal)
              /\ Return(p, failure_result(MsgNoDelivery))
           \/ /\ Truthy(l.file_url) /\ ~l.include_b64
              /\ files' = cleaned
              /\ Logged(p, removal)
              /\ Return(p, success_result(l.file_url, FALSE, None))
           \/ /\ l.include_b64
              /\ l.public_pdf_path \in DOMAIN files
              /\ files' = cleaned
              /\ Logged(p, << read >> \o removal)
              /\ Return(p, success_result(l.file_url, TRUE,
                                          B64Encode(files[l.public_pdf_path])))
           \/ /\ l.include_b64
              /\ Raise(p, << "read failed" >>)
              /\ Logged(p, << read >>)
              /\ UNCHANGED files
    /\ UNCHANGED << environ, dirs, req, loc >>

\* An except clause that cleans up and raises again: no result is returned.
Except_reraise(p) ==
    /\ pc[p] = "except"
    /\ pc' = [pc EXCEPT ![p] = "raised"]
    /\ files' = HandlerCleanupFiles(loc[p], files)
    /\ UNCHANGED << environ, dirs, req, loc, exc, result, log >>

\* The except clause of give_pdf: cleanup when cleanup_tmp is bound and
\* true, then the failure result with str(e).
Except(p) ==
    /\ pc[p] = "except"
    /\ LET l == loc[p]
           cleaned == HandlerCleanupFiles(l, files)
       IN  /\ files' = cleaned
           /\ Logged(p, RemoveEvents(files, cleaned, l.input_path))
           /\ Return(p, failure_result(exc[p]))
    /\ UNCHANGED << environ, dirs, req, loc >>

Next ==
    \/ \E p \in Procs : GetConfig(p)
    \/ \E p \in Procs : Decide(p)
    \/ \E p \in Procs : DownloadById(p)
    \/ \E p \in Procs : ResolveInput(p)
    \/ \E p \in Procs : Convert(p)
    \/ \E p \in Procs : Repair(p)
    \/ \E p \in Procs : Retry(p)
    \/ \E p \in Procs : Fallback(p)
    \/ \E p \in Procs : Publish(p)
    \/ \E p \in Procs : Assemble(p)
    \/ \E p \in Procs : Except(p)

Spec == Init /\ [][Next]_vars

\* ------------------------------------------------------------------------
\* what an invocation has done, read off its log and locals
\* ------------------------------------------------------------------------

Ops(p) == { log[p][i].op : i \in DOMAIN log[p] }

\* The temporary files the invocation created.
Created(p) ==
    { log[p][i].path : i \in { j \in DOMAIN log[p] : log[p][j].op = "mkstemp" } }

\* How many times the invocation removed path.
Removals(p, path) ==
    Cardinality({ i \in DOMAIN log[p] :
                    log[p][i].op = "remove" /\ log[p][i].path = path })

Returned(p) == pc[p] = "done"

\* _publish_and_url has returned.
Published(p) == IsPath(loc[p].public_pdf_path)

\* One step of invocation p.
ProcStep(p) ==
    \/ GetConfig(p) \/ Decide(p) \/ DownloadById(p) \/ ResolveInput(p)
    \/ Convert(p) \/ Repair(p) \/ Retry(p) \/ Fallback(p)
    \/ Publish(p) \/ Assemble(p) \/ Except(p)

\* ------------------------------------------------------------------------
\* C1
\* ------------------------------------------------------------------------

\* C1: when an invocation has returned, every temporary input file it
\* created has been removed exactly once and does not exist, whatever the
\* exit path.
C1_TempRemovedOnEveryExit ==
    \A p \in Procs :
        Returned(p) =>
            \A tmp \in Created(p) :
                tmp \notin DOMAIN files /\ Removals(p, tmp) = 1

\* ------------------------------------------------------------------------
\* C2
\* ------------------------------------------------------------------------

\* The request of C2: docx_source an http(s) URL and nothing else.
UrlOnly(p) ==
    /\ req[p].docx_source # NoSource /\ is_url(req[p].docx_source)
    /\ req[p].file_base64 = None /\ req[p].puch_file_data = None
    /\ req[p].filename = None /\ req[p].output_path = NoPath

\* The case of C2: such a request has returned, with BASE_URL configured,
\* the download, the conversion and the publishing done and nothing raised.
C2_Case(p) ==
    /\ Returned(p) /\ UrlOnly(p) /\ Truthy(environ.BASE_URL)
    /\ Published(p) /\ exc[p] = None

\* C2 as claimed: the URL is BASE_URL + "/files/" + the last segment of the
\* source URL with its extension replaced by .pdf, and the temporary
\* download is removed.
C2_UrlNamedAfterSource ==
    \A p \in Procs :
        C2_Case(p) =>
            /\ result[p].success
            /\ result[p].url = environ.BASE_URL \o << "/files/" >>
                   \o splitext(req[p].docx_source.path.name) \o << PDF_EXT >>
            /\ \A tmp \in Created(p) : tmp \notin DOMAIN files

\* C2, amended: the URL is BASE_URL without its trailing slashes + "/files/"
\* + the base name of the temporary download file with its extension
\* replaced by .pdf, and that temporary file is removed.
C2_UrlNamedAfterTempFile ==
    \A p \in Procs :
        C2_Case(p) =>
            /\ result[p].success
            /\ \E tmp \in Created(p) :
                 /\ Created(p) = {tmp}
                 /\ result[p].url = rstrip_slash(environ.BASE_URL) \o << "/files/" >>
                        \o splitext(tmp.name) \o << PDF_EXT >>
                 /\ tmp \notin DOMAIN files
                 /\ Removals(p, tmp) = 1

\* C2's case, with a base URL that ends in a slash.
C2_Witness ==
    \E p \in Procs :
        /\ C2_Case(p) /\ result[p].success
        /\ environ.BASE_URL = << "https://host", "/" >>

\* ------------------------------------------------------------------------
\* C3
\* ------------------------------------------------------------------------

\* A running invocation whose request sets no source.
NoSources(p) ==
    /\ pc[p] # "off"
    /\ req[p].file_base64 = None /\ req[p].puch_file_data = None
    /\ req[p].docx_source = NoSource

\* C3 as claimed: a request without a source performs no I/O at all and
\* returns the 'no input provided' failure.
C3_NoIoAtAll ==
    \A p \in Procs :
        NoSources(p) =>
            /\ log[p] = << >>
            /\ Returned(p) => result[p] = failure_result(MsgNoInput)

\* C3, amended: a request without a source returns a failure; the only I/O
\* it performs is _get_config ensuring the public directory (no file is
\* written, no network request made, no converter invoked); the error is
\* 'no input provided' unless the public directory could not be created.
C3_OnlyEnsuresPublicDir ==
    \A p \in Procs :
        NoSources(p) =>
            /\ Len(log[p]) <= 1
            /\ \A i \in DOMAIN log[p] :
                 log[p][i] = Event("makedirs", [dir |-> PublicDir, name |-> None], None)
            /\ files = InitFiles
            /\ Returned(p) =>
                 /\ ~result[p].success
                 /\ result[p].keys = {"success", "error"}
                 /\ PublicDir \in dirs => result[p] = failure_result(MsgNoInput)

\* A request without a source has returned 'no input provided', the public
\* directory having been created on the way.
C3_Witness ==
    \E p \in Procs :
        /\ NoSources(p) /\ Returned(p)
        /\ result[p] = failure_result(MsgNoInput)
        /\ Len(log[p]) = 1

\* ------------------------------------------------------------------------
\* C4
\* ------------------------------------------------------------------------

\* Neither delivery is configured: no BASE_URL, INCLUDE_BASE64 not "true".
NoDelivery ==
    /\ ~Truthy(environ.BASE_URL)
    /\ environ.INCLUDE_BASE64 \notin { << "true" >>, << "True" >>, << "TRUE" >> }

\* C4: without BASE_URL and without inline inclusion no invocation returns
\* success; one whose conversion and publishing succeeded returns the
\* configuration error, and the converted file is in the public directory.
C4_NoDeliveryNeverSucceeds ==
    NoDelivery =>
        \A p \in Procs :
            Returned(p) =>
                /\ ~result[p].success
                /\ Published(p) =>
                     /\ result[p] = failure_result(MsgNoDelivery)
                     /\ loc[p].public_pdf_path \in DOMAIN files
                     /\ loc[p].public_pdf_path.dir = PublicDir
                     /\ loc[p].output_pdf \in DOMAIN files
                     /\ files[loc[p].public_pdf_path] = files[loc[p].output_pdf]

\* An invocation that published its output and returned with no delivery
\* configured.
C4_Witness ==
    /\ NoDelivery
    /\ \E p \in Procs : Returned(p) /\ Published(p)

\* ------------------------------------------------------------------------
\* C5
\* ------------------------------------------------------------------------

\* file_base64 and docx_source are both set.
PayloadAndSource(p) ==
    Truthy(req[p].file_base64) /\ req[p].docx_source # NoSource

\* C5: with file_base64 and docx_source both set, docx_source is never
\* requested nor checked for existence, the input is the temporary file
\* holding the decoded payload, and no 'not found' failure is returned for
\* docx_source.
C5_PayloadBeforeSource ==
    \A p \in Procs :
        PayloadAndSource(p) =>
            /\ "http_get" \notin Ops(p)
            /\ "exists" \notin Ops(p)
            /\ IsPath(loc[p].input_path) =>
                 /\ loc[p].input_path \in Created(p)
                 /\ loc[p].cleanup_tmp
                 /\ loc[p].input_path # abspath(req[p].docx_source.path)
            /\ pc[p] = "convert" =>
                 /\ loc[p].input_path \in DOMAIN files
                 /\ files[loc[p].input_path] = B64Decode(req[p].file_base64, FALSE).bytes
            /\ Returned(p) => result[p].error # MsgNotFound(req[p].docx_source)

\* Both set, docx_source a path that does not exist, and the conversion of
\* the payload succeeded.
C5_Witness ==
    \E p \in Procs :
        /\ PayloadAndSource(p) /\ req[p].docx_source = MissingSource
        /\ Returned(p) /\ result[p].success

\* ------------------------------------------------------------------------
\* C6
\* ------------------------------------------------------------------------

\* puch_file_data is set, file_base64 is not, and the source has been
\* decided (input_path and cleanup_tmp are bound).
PuchOnly(p) ==
    /\ req[p].file_base64 = None /\ Truthy(req[p].puch_file_data)
    /\ loc[p].bound

\* C6: a puch_file_data that is valid base64 is decoded into the temporary
\* input like a payload and no download is made, with or without a
\* template; one that is not valid base64 is never taken as the payload:
\* every temporary file then holds a download.
C6_Base64PuchIsPayload ==
    \A p \in Procs :
        PuchOnly(p) =>
            IF B64Decode(req[p].puch_file_data, TRUE).ok
            THEN /\ "http_get" \notin Ops(p)
                 /\ pc[p] # "by_id"
                 /\ loc[p].attachment_b64 = req[p].puch_file_data
                 /\ pc[p] = "convert" =>
                      /\ loc[p].input_path \in Created(p)
                      /\ files[loc[p].input_path]
                             = B64Decode(req[p].puch_file_data, FALSE).bytes
            ELSE /\ loc[p].attachment_b64 = None
                 /\ pc[p] # "resolve"
                 /\ \A tmp \in Created(p) :
                      /\ "http_get" \in Ops(p)
                      /\ tmp \in DOMAIN files => files[tmp] \in {IdBody, << >>}

\* "ZmlsZTEyMw==" with a download template configured was converted from
\* its decoded bytes.
C6_Witness ==
    \E p \in Procs :
        /\ PuchOnly(p) /\ B64Decode(req[p].puch_file_data, TRUE).ok
        /\ Truthy(environ.PUCH_DOWNLOAD_URL_TEMPLATE)
        /\ Returned(p) /\ result[p].success

\* ------------------------------------------------------------------------
\* C7
\* ------------------------------------------------------------------------

\* C7: an invocation that has not returned can take a step, none is left
\* with an exception in flight, and one that raised returns
\* {success: false, error: str(e)}.
C7_FailuresAreReturned ==
    \A p \in Procs :
        /\ pc[p] \notin {"off", "done"} => ENABLED ProcStep(p)
        /\ Returned(p) =>
             /\ result[p].keys # {}
             /\ exc[p] # None => result[p] = failure_result(exc[p])

\* An invocation whose fallback converter was missing has returned that
\* failure.
C7_Witness ==
    \E p \in Procs :
        /\ Returned(p) /\ exc[p] = MsgNoDocx2pdf
        /\ result[p] = failure_result(MsgNoDocx2pdf)

\* ------------------------------------------------------------------------
\* C8
\* ------------------------------------------------------------------------

\* C8: a returned result is either success with a url and no error, the
\* url non-empty or pdf_base64 present, pdf_base64 present exactly when
\* inline inclusion is on; or a failure with an error and neither url nor
\* pdf_base64.
C8_ResultShape ==
    \A p \in Procs :
        Returned(p) =>
            \/ /\ result[p].success
               /\ "url" \in result[p].keys
               /\ "error" \notin result[p].keys
               /\ result[p].keys \subseteq {"success", "url", "pdf_base64"}
               /\ Truthy(result[p].url) \/ "pdf_base64" \in result[p].keys
               /\ "pdf_base64" \in result[p].keys
                      <=> environ.INCLUDE_BASE64 \in { << "true" >>, << "True" >>, << "TRUE" >> }
            \/ /\ ~result[p].success
               /\ result[p].keys = {"success", "error"}

\* A success without a URL: inline inclusion only.
C8_Witness ==
    \E p \in Procs :
        /\ Returned(p) /\ result[p].success
        /\ ~Truthy(result[p].url) /\ Truthy(result[p].pdf_base64)

\* ------------------------------------------------------------------------
\* C9
\* ------------------------------------------------------------------------

\* The input was resolved from an existing local path (not temporary).
LocalInput(p) == IsPath(loc[p].input_path) /\ ~loc[p].cleanup_tmp

\* C9: an input resolved from a local path is never removed: it exists,
\* with its content, in every later state of the invocation.
C9_LocalInputKept ==
    \A p \in Procs :
        LocalInput(p) =>
            /\ loc[p].input_path = abspath(req[p].docx_source.path)
            /\ loc[p].input_path \in DOMAIN files
            /\ files[loc[p].input_path] = LocalBody
            /\ Removals(p, loc[p].input_path) = 0

\* A local input after an invocation that failed past the resolution.
C9_Witness ==
    \E p \in Procs : LocalInput(p) /\ Returned(p) /\ exc[p] # None

\* ------------------------------------------------------------------------
\* C10
\* ------------------------------------------------------------------------

\* C10: an invocation that ran the primary pipeline and returned without
\* the output having been produced has attempted the alternate pipeline.
C10_FallbackBeforeFailure ==
    \A p \in Procs :
        ( /\ Returned(p)
          /\ "convert_file" \in Ops(p)
          /\ loc[p].output_pdf \notin DOMAIN files )
        => "docx2pdf" \in Ops(p)

\* ------------------------------------------------------------------------
\* C11
\* ------------------------------------------------------------------------

\* The positions in p's log of the calls of op.
Calls(p, op) == { i \in DOMAIN log[p] : log[p][i].op = op }

Count(p, op) == Cardinality(Calls(p, op))

C12_PublishedCopyIdentical ==
    \A p \in Procs :
        Published(p) =>
            LET out == loc[p].output_pdf
                pub == loc[p].public_pdf_path
            IN  /\ pub = [dir |-> PublicDir, name |-> out.name]
                /\ Truthy(loc[p].converted)
                /\ pub \in DOMAIN files /\ files[pub] = loc[p].converted
                /\ out \in DOMAIN files /\ files[out] = loc[p].converted
                /\ out # pub => Count(p, "copy2") = 1
                /\ out = pub => Count(p, "copy2") = 0

\* An explicit output path outside the public directory, published and
\* returned.
C12_Witness ==
    \E p \in Procs :
        /\ Published(p) /\ Returned(p) /\ result[p].success
        /\ IsPath(req[p].output_path)
        /\ loc[p].output_pdf.dir # PublicDir

\* ------------------------------------------------------------------------
\* C13
\* ------------------------------------------------------------------------

\* puch_file_data is set and is not valid base64, file_base64 is not set,
\* and the source has been decided.
IdOnly(p) ==
    /\ req[p].file_base64 = None /\ Truthy(req[p].puch_file_data)
    /\ ~B64Decode(req[p].puch_file_data, TRUE).ok
    /\ loc[p].bound

\* C13: such a request is decided by the ID download alone: docx_source is
\* never resolved; without a template it returns the configuration message
\* with no HTTP request and no temporary file; when the download fails it
\* returns a failure; in both cases no converter runs and nothing is
\* published.
C13_IdDownloadDecides ==
    \A p \in Procs :
        IdOnly(p) =>
            /\ pc[p] # "resolve"
            /\ "exists" \notin Ops(p)
            /\ \A i \in Calls(p, "http_get") :
                 log[p][i].url = format_id(environ.PUCH_DOWNLOAD_URL_TEMPLATE,
                                           req[p].puch_file_data)
            /\ ~Truthy(environ.PUCH_DOWNLOAD_URL_TEMPLATE) =>
                 /\ pc[p] \in {"by_id", "done"}
                 /\ Ops(p) \subseteq {"makedirs"}
                 /\ Created(p) = {}
                 /\ Returned(p) => result[p] = failure_result(MsgNoTemplate)
            /\ (Returned(p) /\ ~IsPath(loc[p].input_path)) =>
                 /\ ~result[p].success
                 /\ result[p].keys = {"success", "error"}
                 /\ Ops(p) \cap {"convert_file", "download_pandoc", "docx2pdf",
                                "copy2", "read"} = {}
                 /\ ~Published(p)

\* An ID with no template and an existing docx_source beside it: the
\* configuration failure is returned.
C13_Witness ==
    \E p \in Procs :
        /\ IdOnly(p) /\ req[p].docx_source = LocalSource
        /\ ~Truthy(environ.PUCH_DOWNLOAD_URL_TEMPLATE)
        /\ Returned(p) /\ result[p] = failure_result(MsgNoTemplate)

\* ------------------------------------------------------------------------
\* two invocations at once
\* ------------------------------------------------------------------------

\* Requests for two invocations running together: a payload and a local
\* document that both ask for the name "out" (the same public file), and
\* an attachment ID whose output is named after its temporary file.
ConcRequests ==
    { [NoRequest EXCEPT !.file_base64 = << "Q","U","J","D" >>,
                        !.filename = << "out", DOCX_EXT >>],
      [NoRequest EXCEPT !.docx_source = LocalSource,
                        !.filename = << "out", DOCX_EXT >>],
      [NoRequest EXCEPT !.puch_file_data = << "f","i","l","e","-","1","2","3" >>] }

\* Both invocations start; their steps interleave freely (no lock, no
\* queue: each step is one blocking call of the code).
InitConc == InitWith(ConcRequests, Procs)

SpecConc == InitConc /\ [][Next]_vars

\* ------------------------------------------------------------------------
\* C14
\* ------------------------------------------------------------------------

\* Invocation p returns in this step, with success.
ReturnsSuccess(p) ==
    pc[p] # "done" /\ pc'[p] = "done" /\ result'[p].success

\* What a successful return delivers is the invocation's own conversion:
\* the inline payload, and the published file as it is at that moment.
OwnDelivery ==
    \A p \in Procs :
        ReturnsSuccess(p) =>
            /\ "pdf_base64" \in result'[p].keys =>
                   result'[p].pdf_base64 = B64Encode(loc'[p].converted)
            /\ loc'[p].public_pdf_path \in DOMAIN files'
            /\ files'[loc'[p].public_pdf_path] = loc'[p].converted

\* An invocation removes only temporary files it created itself, and the
\* input it converts is its own temporary file or the local document.
OwnTempOnly ==
    \A p \in Procs :
        /\ \A i \in Calls(p, "remove") : log[p][i].path \in Created(p)
        /\ IsPath(loc[p].input_path) =>
               \/ loc[p].input_path \in Created(p)
               \/ loc[p].input_path = abspath(req[p].docx_source.path)

\* C14: under every interleaving of two invocations, each successful one
\* delivers its own converter output (inline and at its URL when it
\* returns), and none removes or reads the other's temporary input.
C14_OwnArtifactDelivered == [](OwnTempOnly) /\ [][OwnDelivery]_vars

====
